---- MODULE Spec2Model ----
(***************************************************************************)
(* Model of backend/src/agent.py: the deep-research loop                   *)
(* run_deep_research_agent, the search wrapper get_search_results and the  *)
(* data model (SearchIntent, SearchResult, ResearchContext, SearchPlan).   *)
(* The LLM provider (plan_searches, execute_search, synthesize_research)   *)
(* and the search provider (exa.search_and_contents) are external: every   *)
(* call of theirs either raises or returns a value drawn from a small set. *)
(***************************************************************************)
EXTENDS Integers, Sequences, FiniteSets, TLC

(***************************************************************************)
(* Bounds of the model.                                                    *)
(***************************************************************************)
\* largest max_iterations argument explored (the smallest is -1)
MaxIterationsInput == 4
\* tool invocations the Executor's LLM responses carry in one run, in total
MaxToolCalls == 2
\* Executor responses of one run that carry narrative text
MaxNarrated == 2
\* items of the longest provider response given to get_search_results alone
MaxResults == 11

(***************************************************************************)
(* Program constants.                                                      *)
(***************************************************************************)
\* search_plans[:2]
PlanCap == 2
\* result.text[:2000]
ContentLimit == 2000
\* len(key_findings) >= 5
FindingsThreshold == 5
\* search_iterations >= 3
IterationsThreshold == 3
\* relevance scores are kept in tenths: 1.0 is 10, the floor 0.1 is 1
ScoreTop == 10
ScoreFloor == 1

Min(a, b) == IF a < b THEN a ELSE b
Max(a, b) == IF a > b THEN a ELSE b

(***************************************************************************)
(* Data model.                                                             *)
(***************************************************************************)
SearchIntent ==
    {"initial_exploration", "deep_dive", "fact_checking", "related_topics", "synthesis"}

\* SearchResult(title, url, content, relevance_score, search_intent, timestamp);
\* the clock behind datetime.now is the number of the search call under way
SearchResult(title, url, content, relevance_score, search_intent, timestamp) ==
    [title |-> title, url |-> url, content |-> content,
     relevance_score |-> relevance_score, search_intent |-> search_intent,
     timestamp |-> timestamp]

\* ResearchContext(query=question): every list empty, the counter 0
ResearchContext(question) ==
    [query |-> question, search_history |-> <<>>, key_findings |-> <<>>,
     unanswered_questions |-> <<>>, search_iterations |-> 0]

SearchPlan(intent, query, reasoning) ==
    [intent |-> intent, query |-> query, reasoning |-> reasoning]

(***************************************************************************)
(* get_search_results.  A provider response is [ok, results]: ok = FALSE   *)
(* is a failure of exa.search_and_contents (or of building the client);    *)
(* an item is [title, url, text_none, text_len], text_none = TRUE being a  *)
(* result whose text is None, on which result.text[:2000] raises.          *)
(***************************************************************************)
Item(title, url, text_none, text_len) ==
    [title |-> title, url |-> url, text_none |-> text_none, text_len |-> text_len]

\* line 66 without the max of line 72
RelevanceUnclamped(i) == ScoreTop - i

\* max(0.1, 1.0 - i * 0.1) for the zero-based position i, in tenths
Relevance(i) == Max(ScoreFloor, ScoreTop - i)

\* the SearchResult built at time now from the item at zero-based position i
Normalize(item, i, now) ==
    SearchResult(item.title, item.url, Min(item.text_len, ContentLimit),
                 Relevance(i), "initial_exploration", now)

\* the body of the try block: [raised, value]
SearchBody(resp, now) ==
    IF ~resp.ok
    THEN [raised |-> TRUE, value |-> <<>>]
    ELSE IF \E k \in 1..Len(resp.results) : resp.results[k].text_none
         THEN [raised |-> TRUE, value |-> <<>>]
         ELSE [raised |-> FALSE,
               value |-> [k \in 1..Len(resp.results) |-> Normalize(resp.results[k], k - 1, now)]]

\* a handler that keeps what was normalized before the failing item
GetSearchResultsKeepsPartial(resp, now) ==
    IF ~resp.ok
    THEN [raised |-> FALSE, value |-> <<>>]
    ELSE LET bad == {k \in 1..Len(resp.results) : resp.results[k].text_none}
             n == IF bad = {} THEN Len(resp.results)
                  ELSE (CHOOSE k \in bad : \A j \in bad : k <= j) - 1
         IN [raised |-> FALSE,
             value |-> [k \in 1..n |-> Normalize(resp.results[k], k - 1, now)]]

\* try: ... except Exception: return []
GetSearchResults(resp, now) ==
    IF SearchBody(resp, now).raised
    THEN [raised |-> FALSE, value |-> <<>>]
    ELSE SearchBody(resp, now)

(***************************************************************************)
(* Text.  A string is a sequence of one-character strings; Marker stands   *)
(* for the magnifying-glass emoji U+1F50D of line 308.                     *)
(***************************************************************************)
Marker == "@"
NL == "\n"
IsSpace(c) == c \in {" ", "\t", "\r", NL}

LowerChar(c) ==
    CASE c = "F" -> "f" [] c = "D" -> "d" [] c = "I" -> "i" [] c = "N" -> "n"
      [] c = "G" -> "g" [] OTHER -> c
Lower(s) == [k \in 1..Len(s) |-> LowerChar(s[k])]

\* str.strip(): from the first to the last character that is no whitespace
Strip(s) ==
    LET inked == {k \in 1..Len(s) : ~IsSpace(s[k])}
    IN IF inked = {} THEN <<>>
       ELSE SubSeq(s, CHOOSE k \in inked : \A j \in inked : k <= j,
                      CHOOSE k \in inked : \A j \in inked : k >= j)

\* sub in s
Contains(s, sub) ==
    \E k \in 0..(Len(s) - Len(sub)) : SubSeq(s, k + 1, k + Len(sub)) = sub
\* s.startswith(prefix)
StartsWith(s, prefix) ==
    Len(s) >= Len(prefix) /\ SubSeq(s, 1, Len(prefix)) = prefix

\* content.split('\n'): the pieces between newlines, empty ones kept; the
\* j-th piece runs from after the (j-1)-th newline to before the j-th
SplitLines(s) ==
    LET breaks == {k \in 1..Len(s) : s[k] = NL}
        cut(j) == IF j = 0 THEN 0
                  ELSE IF j > Cardinality(breaks) THEN Len(s) + 1
                  ELSE CHOOSE k \in breaks : Cardinality({x \in breaks : x < k}) = j - 1
    IN [j \in 1..(Cardinality(breaks) + 1) |-> SubSeq(s, cut(j - 1) + 1, cut(j) - 1)]

finding == <<"f", "i", "n", "d", "i", "n", "g">>
discovered == <<"d", "i", "s", "c", "o", "v", "e", "r", "e", "d">>

\* lines 308-309: the test a narrative line must pass
IsFindingLine(line) ==
    /\ Strip(line) # <<>>
    /\ ~StartsWith(line, <<Marker>>)
    /\ (Contains(Lower(line), finding) \/ Contains(Lower(line), discovered))

\* lines 306-310: the stripped lines appended to key_findings, in line order
FindingsOf(lines) ==
    CHOOSE found \in {[k \in 1..Len(kept) |-> Strip(kept[k])] :
                         kept \in {SelectSeq(lines, IsFindingLine)}} : TRUE
ExtractFindings(content) == FindingsOf(SplitLines(content))

(***************************************************************************)
(* The external services: what a call may return.                          *)
(***************************************************************************)
Question == <<"X">>

P1 == SearchPlan("deep_dive", "q1", "r1")
P2 == SearchPlan("initial_exploration", "q2", "r2")
P3 == SearchPlan("fact_checking", "q3", "r3")
\* plan_searches returns a list of SearchPlan: the prompt asks for up to 3
PlannerOutputs == {<<>>, <<P1>>, <<P1, P2, P3>>}

ItemA == Item("A", "uA", FALSE, 2500)
ItemB == Item("B", "uB", FALSE, 10)
ItemBad == Item("C", "uC", TRUE, 0)
ProviderError == [ok |-> FALSE, results |-> <<>>]
ProviderResponses ==
    {ProviderError,
     [ok |-> TRUE, results |-> <<ItemA, ItemB>>],
     [ok |-> TRUE, results |-> <<ItemA, ItemBad>>]}

\* " Finding a ", "@ finding", "Discovered b", "": two findings
NarrativeA ==
    <<" ", "F", "i", "n", "d", "i", "n", "g", " ", "a", " ", NL>>
    \o <<Marker, " ", "f", "i", "n", "d", "i", "n", "g", NL>>
    \o <<"D", "i", "s", "c", "o", "v", "e", "r", "e", "d", " ", "b", NL>>
\* "findings", " @finding", "  ", "no", "discovered": three findings
NarrativeB ==
    <<"f", "i", "n", "d", "i", "n", "g", "s", NL>>
    \o <<" ", Marker, "f", "i", "n", "d", "i", "n", "g", NL>>
    \o <<" ", " ", NL, "n", "o", NL>>
    \o <<"d", "i", "s", "c", "o", "v", "e", "r", "e", "d">>
Narratives == {NarrativeA, NarrativeB}

(***************************************************************************)
(* State of one run of run_deep_research_agent.                            *)
(***************************************************************************)
VARIABLES
    max_iterations,     \* the argument
    environ,            \* which provider credentials the process environment holds
    search_call,        \* a call of get_search_results followed line by line
    research_context,   \* the ResearchContext
    pc,                 \* the line the run is at
    search_plans,       \* the Planner's list of this round
    plan_idx,           \* how many plans of search_plans[:2] were taken
    search_result,      \* the Executor's response: [tools, content]
    tool_idx,           \* how many tools of search_result.tools were called
    result,             \* the returned dictionary, <<>> before the return
    \* history variables
    calls,              \* calls so far of plan_searches (and those that raised), of
                        \* tool.call (and the tools the responses issued) and of
                        \* synthesize_research
    round_plans,        \* the plans passed to execute_search in this round
    returned,           \* what each returning tool.call() gave back, and for which plan
    last_call,          \* the outcome of the latest external call
    narrated            \* Executor responses so far that carried narrative text

vars == <<max_iterations, environ, search_call, research_context, pc, search_plans, plan_idx, search_result,
          tool_idx, result, calls, round_plans, returned, last_call, narrated>>

NoResponse == [tools |-> <<>>, content |-> <<>>]

\* os.getenv("EXA_API_KEY") (line 54) and the key of the provider named at
\* lines 83, 140 and 200: TRUE when the variable is set
Environments == [EXA_API_KEY : BOOLEAN, OPENAI_API_KEY : BOOLEAN]

\* no call of get_search_results is followed
NoSearchCall ==
    [pc |-> "idle", response |-> ProviderError, i |-> 0, structured_results |-> <<>>,
     value |-> <<>>]

Init ==
    /\ max_iterations \in (-1)..MaxIterationsInput
    /\ environ \in Environments
    /\ search_call = NoSearchCall
    /\ research_context = ResearchContext(Question)
    /\ pc = "while"
    /\ search_plans = <<>>
    /\ plan_idx = 0
    /\ search_result = NoResponse
    /\ tool_idx = 0
    /\ result = <<>>
    /\ calls = [plan |-> 0, plan_raised |-> 0, issued |-> 0, tool |-> 0, synth |-> 0]
    /\ round_plans = <<>>
    /\ returned = <<>>
    /\ last_call = "none"
    /\ narrated = 0

Given == <<max_iterations, environ, search_call>>
Locals == <<search_plans, plan_idx, search_result, tool_idx>>
History == <<calls, round_plans, returned, last_call, narrated>>
Called(service) == [calls EXCEPT ![service] = @ + 1]

(***************************************************************************)
(* while research_context.search_iterations < max_iterations (line 272)    *)
(***************************************************************************)
LoopConditionInclusive == research_context.search_iterations <= max_iterations

LoopCondition == research_context.search_iterations < max_iterations

\* line 273: search_iterations += 1
WhileEnter ==
    /\ pc = "while"
    /\ LoopCondition
    /\ research_context' =
           [research_context EXCEPT !.search_iterations = @ + 1]
    /\ round_plans' = <<>>
    /\ pc' = "plan_searches"
    /\ UNCHANGED <<Given, Locals, result, calls, returned, last_call, narrated>>

\* a loop left only when the counter equals the limit (a != for the < of line 272)
WhileExitAtLimitOnly ==
    /\ pc = "while"
    /\ research_context.search_iterations = max_iterations
    /\ pc' = "synthesize"
    /\ UNCHANGED <<Given, research_context, Locals, result, History>>

WhileExit ==
    /\ pc = "while"
    /\ ~LoopCondition
    /\ pc' = "synthesize"
    /\ UNCHANGED <<Given, research_context, Locals, result, History>>

(***************************************************************************)
(* search_plans = plan_searches(research_context) (line 278)               *)
(***************************************************************************)
PlanOk ==
    /\ pc = "plan_searches"
    /\ environ.OPENAI_API_KEY
    /\ \E plans \in PlannerOutputs : search_plans' = plans
    /\ plan_idx' = 0
    /\ calls' = Called("plan")
    /\ last_call' = "plan_ok"
    /\ pc' = "for_plans"
    /\ UNCHANGED <<Given, research_context, search_result, tool_idx, result,
                   round_plans, returned, narrated>>

\* a Planner failure that ends the run without a report
PlanRaiseSkipsSynthesis ==
    /\ pc = "plan_searches"
    /\ calls' = [calls EXCEPT !.plan = @ + 1, !.plan_raised = @ + 1]
    /\ last_call' = "plan_raise"
    /\ result' = <<[final_report |-> "", iterations |-> research_context.search_iterations]>>
    /\ pc' = "done"
    /\ UNCHANGED <<Given, research_context, Locals, round_plans, returned,
                   narrated>>

\* a round whose Planner failure is logged and the loop carries on
PlanRaiseContinues ==
    /\ pc = "plan_searches"
    /\ calls' = [calls EXCEPT !.plan = @ + 1, !.plan_raised = @ + 1]
    /\ last_call' = "plan_raise"
    /\ pc' = "check_stop"
    /\ UNCHANGED <<Given, research_context, Locals, result, round_plans,
                   returned, narrated>>

\* the call raises: except Exception (line 312), break (line 314)
PlanRaise ==
    /\ pc = "plan_searches"
    /\ calls' = [calls EXCEPT !.plan = @ + 1, !.plan_raised = @ + 1]
    /\ last_call' = "plan_raise"
    /\ pc' = "synthesize"
    /\ UNCHANGED <<Given, research_context, Locals, result, round_plans,
                   returned, narrated>>

(***************************************************************************)
(* for i, plan in enumerate(search_plans[:2]) (line 282)                   *)
(***************************************************************************)
CapPlansAll(plans) == plans
CapPlans(plans) == SubSeq(plans, 1, Min(PlanCap, Len(plans)))

\* the plan of the current loop body
plan == CapPlans(search_plans)[plan_idx]

ForNext ==
    /\ pc = "for_plans"
    /\ plan_idx < Len(CapPlans(search_plans))
    /\ plan_idx' = plan_idx + 1
    /\ pc' = "execute_search"
    /\ UNCHANGED <<Given, research_context, search_plans, search_result,
                   tool_idx, result, History>>

\* a loop over the plans that is left as soon as the stop rule holds
ForEndOnStop ==
    /\ pc = "for_plans"
    /\ \/ plan_idx >= Len(CapPlans(search_plans))
       \/ /\ Len(research_context.key_findings) >= FindingsThreshold
          /\ research_context.search_iterations >= IterationsThreshold
    /\ pc' = "check_stop"
    /\ UNCHANGED <<Given, research_context, Locals, result, History>>

\* an empty plan list handled as a planning failure
ForEndEmptyBreaks ==
    /\ pc = "for_plans"
    /\ plan_idx >= Len(CapPlans(search_plans))
    /\ pc' = IF search_plans = <<>> THEN "synthesize" ELSE "check_stop"
    /\ UNCHANGED <<Given, research_context, Locals, result, History>>

ForEnd ==
    /\ pc = "for_plans"
    /\ plan_idx >= Len(CapPlans(search_plans))
    /\ pc' = "check_stop"
    /\ UNCHANGED <<Given, research_context, Locals, result, History>>

(***************************************************************************)
(* search_result = execute_search(plan, research_context) (line 288)       *)
(***************************************************************************)
ToolLists == {<<>>, <<"get_search_results">>,
              <<"get_search_results", "get_search_results">>}

\* the response: tools (None and [] alike are <<>>) and content (None and ""
\* alike are <<>>)
ExecuteOk ==
    /\ pc = "execute_search"
    /\ environ.OPENAI_API_KEY
    /\ \E tools \in ToolLists, content \in Narratives \cup {<<>>} :
          /\ calls.tool + Len(tools) <= MaxToolCalls
          /\ content # <<>> => narrated < MaxNarrated
          /\ search_result' = [tools |-> tools, content |-> content]
          /\ narrated' = IF content # <<>> THEN narrated + 1 ELSE narrated
          /\ calls' = [calls EXCEPT !.issued = @ + Len(tools)]
          \* if search_result.tools: (line 291)
          /\ pc' = IF tools # <<>> THEN "tools" ELSE "extract"
    /\ tool_idx' = 0
    /\ round_plans' = Append(round_plans, plan)
    /\ last_call' = "exec_ok"
    /\ UNCHANGED <<Given, research_context, search_plans, plan_idx, result, returned>>

\* an Executor failure that no handler catches
ExecuteRaisePropagates ==
    /\ pc = "execute_search"
    /\ round_plans' = Append(round_plans, plan)
    /\ last_call' = "exec_raise"
    /\ pc' = "raised"
    /\ UNCHANGED <<Given, research_context, Locals, result, calls, returned,
                   narrated>>

\* the call raises inside the try of line 277: except Exception (line 312),
\* break (line 314)
ExecuteRaise ==
    /\ pc = "execute_search"
    /\ round_plans' = Append(round_plans, plan)
    /\ last_call' = "exec_raise"
    /\ pc' = "synthesize"
    /\ UNCHANGED <<Given, research_context, Locals, result, calls, returned,
                   narrated>>

(***************************************************************************)
(* for tool in search_result.tools: results = tool.call() (lines 292-301)  *)
(***************************************************************************)
\* lines 296-298, a list put in front of the history
AppendResultsInFront(history, results, intent) ==
    [k \in 1..Len(results) |-> [results[k] EXCEPT !.search_intent = intent]] \o history

\* lines 296-298 without the assignment of line 297
AppendResultsKeepsIntent(history, results, intent) == history \o results

\* lines 296-298: r.search_intent = plan.intent; search_history.append(r)
AppendResults(history, results, intent) ==
    history \o [k \in 1..Len(results) |-> [results[k] EXCEPT !.search_intent = intent]]

RespKind(resp) ==
    IF ~resp.ok THEN "tool_provider_error"
    ELSE IF \E k \in 1..Len(resp.results) : resp.results[k].text_none
         THEN "tool_bad_item"
         ELSE "tool_ok"

\* where the run is after one more tool of the response
AfterTool == IF tool_idx + 1 < Len(search_result.tools) THEN "tools" ELSE "extract"

\* tool.call() reaches get_search_results, which answers resp's outcome
ToolCall ==
    /\ pc = "tools"
    /\ tool_idx < Len(search_result.tools)
    \* without the key exa_py.Exa(api_key=None) raises inside the try of line 53
    /\ \E resp \in (IF environ.EXA_API_KEY THEN ProviderResponses ELSE {ProviderError}) :
          LET out == GetSearchResults(resp, calls.tool + 1) IN
          /\ last_call' = RespKind(resp)
          \* an exception leaving get_search_results is caught at line 300
          /\ IF out.raised
             THEN UNCHANGED <<research_context, returned>>
             ELSE /\ research_context' =
                        [research_context EXCEPT !.search_history =
                             AppendResults(@, out.value, plan.intent)]
                  /\ returned' =
                        Append(returned, [results |-> out.value, intent |-> plan.intent])
    /\ tool_idx' = tool_idx + 1
    /\ calls' = Called("tool")
    /\ pc' = AfterTool
    /\ UNCHANGED <<Given, search_plans, plan_idx, search_result, result,
                   round_plans, narrated>>

\* a raising invocation that is called once more
ToolRaiseRetries ==
    /\ pc = "tools"
    /\ tool_idx < Len(search_result.tools)
    /\ last_call # "tool_raise"
    /\ calls' = Called("tool")
    /\ last_call' = "tool_raise"
    /\ UNCHANGED <<Given, research_context, pc, Locals, result, round_plans, returned,
                   narrated>>

\* a raising invocation that is not caught per invocation
ToolRaiseAborts ==
    /\ pc = "tools"
    /\ tool_idx < Len(search_result.tools)
    /\ tool_idx' = tool_idx + 1
    /\ calls' = Called("tool")
    /\ last_call' = "tool_raise"
    /\ pc' = "synthesize"
    /\ UNCHANGED <<Given, research_context, search_plans, plan_idx,
                   search_result, result, round_plans, returned, narrated>>

\* tool.call() raises before get_search_results answers: except Exception
\* (line 300), the loop over the tools goes on
ToolRaise ==
    /\ pc = "tools"
    /\ tool_idx < Len(search_result.tools)
    /\ tool_idx' = tool_idx + 1
    /\ calls' = Called("tool")
    /\ last_call' = "tool_raise"
    /\ pc' = AfterTool
    /\ UNCHANGED <<Given, research_context, search_plans, plan_idx,
                   search_result, result, round_plans, returned, narrated>>

(***************************************************************************)
(* if search_result.content: ... key_findings.append(line.strip())         *)
(* (lines 304-310)                                                         *)
(***************************************************************************)
\* an extraction that also files the lines without a finding as open questions
ExtractAddsQuestions ==
    /\ pc = "extract"
    /\ research_context' =
           [research_context EXCEPT
               !.key_findings = @ \o ExtractFindings(search_result.content),
               !.unanswered_questions =
                   IF search_result.content # <<>> THEN Append(@, search_result.content)
                   ELSE @]
    /\ search_result' = NoResponse
    /\ tool_idx' = 0
    /\ pc' = "for_plans"
    /\ UNCHANGED <<Given, search_plans, plan_idx, result, History>>

Extract ==
    /\ pc = "extract"
    /\ research_context' =
           [research_context EXCEPT !.key_findings =
                IF search_result.content # <<>>
                THEN @ \o ExtractFindings(search_result.content)
                ELSE @]
    \* the response is read by nothing after this line
    /\ search_result' = NoResponse
    /\ tool_idx' = 0
    /\ pc' = "for_plans"
    /\ UNCHANGED <<Given, search_plans, plan_idx, result, History>>

(***************************************************************************)
(* if len(key_findings) >= 5 and search_iterations >= 3: break (line 317)  *)
(***************************************************************************)
StopRuleFindingsOnly ==
    Len(research_context.key_findings) >= FindingsThreshold

StopRule ==
    /\ Len(research_context.key_findings) >= FindingsThreshold
    /\ research_context.search_iterations >= IterationsThreshold

CheckStopBreak ==
    /\ pc = "check_stop"
    /\ StopRule
    /\ pc' = "synthesize"
    /\ UNCHANGED <<Given, research_context, Locals, result, History>>

CheckStopContinue ==
    /\ pc = "check_stop"
    /\ ~StopRule
    /\ pc' = "while"
    /\ UNCHANGED <<Given, research_context, Locals, result, History>>

(***************************************************************************)
(* final_report = synthesize_research(research_context) (line 323) and the *)
(* return (lines 331-335); research_context is returned by reference.      *)
(***************************************************************************)
SynthesizeOk ==
    /\ pc = "synthesize"
    /\ environ.OPENAI_API_KEY
    /\ calls' = Called("synth")
    /\ last_call' = "synth_ok"
    /\ result' = <<[final_report |-> "report",
                    iterations |-> research_context.search_iterations]>>
    /\ pc' = "done"
    /\ UNCHANGED <<Given, research_context, Locals, round_plans, returned,
                   narrated>>

\* the call raises outside every try: the exception leaves the function
SynthesizeRaise ==
    /\ pc = "synthesize"
    /\ calls' = Called("synth")
    /\ last_call' = "synth_raise"
    /\ pc' = "raised"
    /\ UNCHANGED <<Given, research_context, Locals, result, round_plans,
                   returned, narrated>>

Next ==
    \/ WhileEnter
    \/ WhileExit
    \/ PlanOk
    \/ PlanRaise
    \/ ForNext
    \/ ForEnd
    \/ ExecuteOk
    \/ ExecuteRaise
    \/ ToolCall
    \/ ToolRaise
    \/ Extract
    \/ CheckStopBreak
    \/ CheckStopContinue
    \/ SynthesizeOk
    \/ SynthesizeRaise

Spec == Init /\ [][Next]_vars

\* every call is synchronous and returns or raises, and no line waits for
\* anything else: a run that can take a step takes one
FairSpec == Spec /\ WF_vars(Next)

TypeOK ==
    /\ max_iterations \in (-1)..MaxIterationsInput
    /\ pc \in {"while", "plan_searches", "for_plans", "execute_search", "tools",
               "extract", "check_stop", "synthesize", "done", "raised"}
    /\ research_context.search_iterations \in 0..Max(0, max_iterations)
    /\ search_plans \in PlannerOutputs
    /\ plan_idx \in 0..PlanCap
    /\ tool_idx \in 0..Len(search_result.tools)
    /\ Len(result) <= 1

(***************************************************************************)
(* get_search_results on its own, one line at a time (lines 49-79): the    *)
(* provider call, the loop over results.results, the return and the        *)
(* handler.  The run of the agent stays in its initial state.              *)
(***************************************************************************)
\* a response of n items, the one at position bad (if any) without text
Response(n, bad) ==
    [ok |-> TRUE,
     results |-> [k \in 1..n |-> IF k = bad THEN ItemBad
                                 ELSE IF k % 2 = 1 THEN ItemA ELSE ItemB]]
SearchInputs ==
    {ProviderError} \cup {Response(n, bad) : n \in 0..MaxResults, bad \in 0..MaxResults}

SearchInit ==
    /\ max_iterations = 0
    /\ environ \in Environments
    /\ \E resp \in SearchInputs :
          search_call = [NoSearchCall EXCEPT !.pc = "call", !.response = resp]
    /\ research_context = ResearchContext(Question)
    /\ pc = "while"
    /\ search_plans = <<>>
    /\ plan_idx = 0
    /\ search_result = NoResponse
    /\ tool_idx = 0
    /\ result = <<>>
    /\ calls = [plan |-> 0, plan_raised |-> 0, issued |-> 0, tool |-> 0, synth |-> 0]
    /\ round_plans = <<>>
    /\ returned = <<>>
    /\ last_call = "none"
    /\ narrated = 0

Run == <<max_iterations, environ, research_context, pc, Locals, result, History>>

\* lines 54-61 return the response; structured_results = [] (line 63)
SearchProviderOk ==
    /\ search_call.pc = "call"
    /\ environ.EXA_API_KEY /\ search_call.response.ok
    /\ search_call' = [search_call EXCEPT !.pc = "loop", !.i = 0,
                                          !.structured_results = <<>>]
    /\ UNCHANGED Run

\* lines 54-61 raise: except Exception, return [] (lines 77-79)
SearchProviderRaise ==
    /\ search_call.pc = "call"
    /\ ~(environ.EXA_API_KEY /\ search_call.response.ok)
    /\ search_call' = [search_call EXCEPT !.pc = "returned", !.value = <<>>]
    /\ UNCHANGED Run

\* lines 64-74 for the item at position i
SearchAppend ==
    /\ search_call.pc = "loop"
    /\ search_call.i < Len(search_call.response.results)
    /\ ~search_call.response.results[search_call.i + 1].text_none
    /\ search_call' =
           [search_call EXCEPT
               !.structured_results =
                   Append(@, Normalize(search_call.response.results[search_call.i + 1],
                                       search_call.i, 1)),
               !.i = @ + 1]
    /\ UNCHANGED Run

\* result.text[:2000] raises on the item at position i: return [] (lines 77-79)
SearchItemRaise ==
    /\ search_call.pc = "loop"
    /\ search_call.i < Len(search_call.response.results)
    /\ search_call.response.results[search_call.i + 1].text_none
    /\ search_call' = [search_call EXCEPT !.pc = "returned", !.value = <<>>]
    /\ UNCHANGED Run

\* return structured_results (line 76)
SearchReturn ==
    /\ search_call.pc = "loop"
    /\ search_call.i >= Len(search_call.response.results)
    /\ search_call' = [search_call EXCEPT !.pc = "returned",
                                          !.value = search_call.structured_results]
    /\ UNCHANGED Run

SearchNext ==
    \/ SearchProviderOk
    \/ SearchProviderRaise
    \/ SearchAppend
    \/ SearchItemRaise
    \/ SearchReturn

SearchSpec == SearchInit /\ [][SearchNext]_vars

\* followed line by line, the call returns what GetSearchResults gives
SearchAgrees ==
    search_call.pc = "returned" =>
        search_call.value =
            GetSearchResults(IF environ.EXA_API_KEY THEN search_call.response
                             ELSE ProviderError, 1).value

(***************************************************************************)
(* Properties.                                                             *)
(***************************************************************************)
Finished == pc \in {"done", "raised"}
Returned == pc = "done"
iterations == result[1].iterations

\* C1: when execute_search raises for a plan of a round, the failure stays
\* local: the context is kept and the run is back at the loop over the
\* round's plans (the remaining plan, then the stop check), not at synthesis.
C1_ExecutorFailureIsLocal ==
    [][(pc = "execute_search" /\ last_call' = "exec_raise")
          => (pc' = "for_plans" /\ research_context' = research_context)]_vars

\* C2: once plan_searches has raised in round k, no plan of round k was
\* passed to the Executor, k stays the last round, the run is at the one
\* Synthesizer call or past it with the context untouched since the failure;
\* for k = 1 the history is empty and the returned iterations is 1.
C2_PlannerFailureState ==
    calls.plan_raised > 0 =>
        /\ calls.plan_raised = 1
        /\ pc \in {"synthesize", "done", "raised"}
        /\ round_plans = <<>>
        /\ research_context.search_iterations = calls.plan
        /\ calls.synth = IF pc = "synthesize" THEN 0 ELSE 1
        /\ calls.plan = 1 =>
              /\ research_context.search_history = <<>>
              /\ Returned => iterations = 1
C2_PlannerFailure ==
    /\ []C2_PlannerFailureState
    /\ [][calls.plan_raised > 0 => research_context' = research_context]_vars
    /\ [][(pc = "plan_searches" /\ last_call' = "plan_raise")
              => (pc' = "synthesize" /\ research_context' = research_context)]_vars
C2_Witness ==
    /\ Returned
    /\ calls.plan_raised = 1
    /\ calls.plan = 1
    /\ iterations = 1
    /\ research_context.search_history = <<>>

\* C3 as stated: a finished run made at most max_iterations planning rounds
\* and the returned iterations is the number of rounds made.
C3_AtMostMaxIterations ==
    /\ Finished => calls.plan <= max_iterations
    /\ Returned => iterations = calls.plan

\* C3 amended: at every moment at most max(0, max_iterations) planning rounds
\* were made; the returned iterations is the number of rounds made; with
\* max_iterations = 1 a finished run made exactly one.
C3_RoundsBounded ==
    /\ calls.plan <= Max(0, max_iterations)
    /\ Finished => research_context.search_iterations = calls.plan
    /\ Returned => iterations = calls.plan
    /\ (Finished /\ max_iterations = 1) => calls.plan = 1
C3_Witness ==
    /\ Returned
    /\ max_iterations = 1
    /\ calls.plan = 1
    /\ iterations = 1

\* C4: the plans passed to execute_search in a round are a prefix, of length
\* at most 2, of the list the Planner returned in that round, in its order.
C4_ExecutedPlansArePrefix ==
    /\ Len(round_plans) <= 2
    /\ Len(round_plans) <= Len(search_plans)
    /\ \A k \in 1..Len(round_plans) : round_plans[k] = search_plans[k]
C4_Witness ==
    /\ pc = "check_stop"
    /\ Len(search_plans) = 3
    /\ round_plans = <<search_plans[1], search_plans[2]>>

\* C5: a round k that reached the stop check (no Planner or Executor
\* failure) is followed by synthesis when k >= max_iterations or when there
\* are 5 findings and k >= 3, and by planning round k + 1 otherwise.
C5_StopDecision ==
    [][LET k == research_context.search_iterations
           enough == Len(research_context.key_findings) >= 5 /\ k >= 3
       IN /\ (pc = "check_stop" /\ enough) => pc' = "synthesize"
          /\ (pc = "check_stop" /\ ~enough) =>
                 (pc' = "while" /\ research_context' = research_context)
          /\ (pc = "while" /\ k >= max_iterations) => pc' = "synthesize"
          /\ (pc = "while" /\ k < max_iterations) =>
                 /\ pc' = "plan_searches"
                 /\ research_context'.search_iterations = k + 1]_vars
\* the loop was left on the findings after round 3 of 4
C5_Witness ==
    /\ pc = "synthesize"
    /\ last_call \notin {"plan_raise", "exec_raise"}
    /\ research_context.search_iterations = 3
    /\ max_iterations = 4
    /\ Len(research_context.key_findings) >= 5

\* C6: synthesize_research is called at most once, a finished run has called
\* it exactly once, and after the call there is no Planner call, no Executor
\* call, no tool call and no change of the context.
C6_SynthesizedOnce ==
    /\ calls.synth <= 1
    /\ Finished <=> calls.synth = 1
C6_SynthesizerLast ==
    /\ []C6_SynthesizedOnce
    /\ [][calls.synth >= 1 =>
             /\ research_context' = research_context
             /\ calls'.plan = calls.plan
             /\ calls'.tool = calls.tool
             /\ round_plans' = round_plans
             /\ calls'.synth = calls.synth]_vars
C6_Witness ==
    /\ Returned
    /\ calls.synth = 1
    /\ calls.tool >= 1
    /\ Len(research_context.key_findings) > 0

\* what the returning tool calls gave back, joined in call order, each result
\* with the intent of the plan whose execution called the tool
RECURSIVE Produced(_)
Produced(log) ==
    IF log = <<>> THEN <<>>
    ELSE [k \in 1..Len(Head(log).results) |->
              [result |-> Head(log).results[k], intent |-> Head(log).intent]]
         \o Produced(Tail(log))

RECURSIVE SumOfLengths(_)
SumOfLengths(log) ==
    IF log = <<>> THEN 0 ELSE Len(Head(log).results) + SumOfLengths(Tail(log))

\* C8: search_history is as long as the result lists of the returning tool
\* calls together, and is those lists joined in call order, each in the order
\* it was returned (the results compared by every field but the intent).
C8_HistoryIsConcatenation ==
    /\ Len(research_context.search_history) = SumOfLengths(returned)
    /\ \A k \in 1..Len(research_context.search_history) :
          LET r == research_context.search_history[k]
              made == Produced(returned)[k].result
          IN /\ r.title = made.title
             /\ r.url = made.url
             /\ r.content = made.content
             /\ r.relevance_score = made.relevance_score
             /\ r.timestamp = made.timestamp
C8_Witness ==
    /\ Len(returned) = 2
    /\ Len(returned[1].results) = 2
    /\ Len(returned[2].results) = 2
    /\ Len(research_context.search_history) = 4
    /\ research_context.search_history[2].timestamp
           # research_context.search_history[3].timestamp

\* C9: a tool call whose provider call fails, or whose response has an item
\* that cannot be normalized, still returns, with an empty list: nothing is
\* added to search_history and the run goes on with the next tool of the plan
\* or with the plan's finding extraction.
C9_SearchFailureReturnsEmpty ==
    [][(pc = "tools" /\ last_call' \in {"tool_provider_error", "tool_bad_item"})
          => /\ returned' = Append(returned, [results |-> <<>>, intent |-> plan.intent])
             /\ research_context' = research_context
             /\ pc' \in {"tools", "extract"}
             /\ search_plans' = search_plans /\ plan_idx' = plan_idx]_vars
C9_Witness ==
    /\ last_call = "tool_bad_item"
    /\ pc = "extract"
    /\ returned # <<>>
    /\ returned[Len(returned)].results = <<>>

\* C10: a tool.call() that raises adds nothing, and the run goes on with the
\* plan's next tool when there is one, else with the plan's finding
\* extraction; the extraction leads back to the loop over the round's plans.
C10_ToolFailureIsLocal ==
    /\ [][(pc = "tools" /\ last_call' = "tool_raise")
             => /\ research_context' = research_context
                /\ returned' = returned
                /\ search_result' = search_result
                /\ tool_idx' = tool_idx + 1
                /\ pc' = IF tool_idx' < Len(search_result.tools)
                         THEN "tools" ELSE "extract"]_vars
    /\ [][pc = "extract" => pc' = "for_plans"]_vars
    /\ [](pc = "tools" => tool_idx < Len(search_result.tools))
\* the first invocation of a plan raised, the second returned two results
C10_Witness ==
    /\ pc = "extract"
    /\ Len(search_result.tools) = 2
    /\ tool_idx = 2
    /\ calls.tool = 2
    /\ last_call = "tool_ok"
    /\ Len(returned) = 1
    /\ Len(research_context.search_history) = 2

\* C11: with a provider credential absent the run makes no planning round:
\* no Planner call, no tool call, and so neither a failure inside the loop
\* nor an empty search result that stands for the missing key.
C11_ConfigurationErrorFirst ==
    (~environ.EXA_API_KEY \/ ~environ.OPENAI_API_KEY) =>
        /\ research_context.search_iterations = 0
        /\ calls.plan = 0
        /\ calls.tool = 0
        /\ last_call \notin {"plan_raise", "exec_raise", "tool_provider_error"}

\* C12: an exception leaves run_deep_research_agent only from the
\* Synthesizer call; right after a failure of the Planner, of the Executor or
\* of a search the run is still going, and a run that returns gives the
\* report and the iterations of the context accumulated so far.
C12_OnlySynthesisSurfaces ==
    /\ pc = "raised" => (last_call = "synth_raise" /\ result = <<>>)
    /\ last_call \in {"plan_raise", "exec_raise", "tool_raise",
                      "tool_provider_error", "tool_bad_item"} => ~Finished
    /\ Returned =>
          /\ last_call = "synth_ok"
          /\ Len(result) = 1
          /\ result[1].final_report = "report"
          /\ iterations = research_context.search_iterations
\* a run that returned after a Planner failure in round 2, with round 1's results
C12_Witness ==
    /\ Returned
    /\ calls.plan_raised = 1
    /\ calls.plan = 2
    /\ research_context.search_history # <<>>

\* the tools of the current response that were not called yet
PendingTools == Len(search_result.tools) - tool_idx

\* C13: nothing is called again: plan_searches was called at most once per
\* planning round, execute_search at most once per plan taken in the round,
\* and tool.call() exactly once per tool handled so far, failures included.
C13_NoRetry ==
    /\ calls.plan <= research_context.search_iterations
    /\ calls.plan >= research_context.search_iterations - 1
    /\ pc \in {"for_plans", "execute_search", "tools", "extract", "check_stop"}
           => Len(round_plans) <= plan_idx
    /\ calls.tool + PendingTools = calls.issued
\* both tools of a response raised and the round went on to the stop check
C13_Witness ==
    /\ pc = "check_stop"
    /\ last_call = "tool_raise"
    /\ calls.tool = 2
    /\ calls.issued = 2
    /\ returned = <<>>

\* C14: in the list a search call builds, the result at zero-based position
\* i has the score max(0.1, 1.0 - i * 0.1) (in tenths: the larger of 1 and
\* 10 - i); the scores never rise with the position and stay within 0.1..1.0.
C14_RelevanceByPosition ==
    \A list \in {search_call.structured_results, search_call.value} :
        \A k \in 1..Len(list) :
            LET i == k - 1
                score == list[k].relevance_score
            IN /\ score = IF 10 - i > 1 THEN 10 - i ELSE 1
               /\ score >= 1
               /\ score <= 10
               /\ k > 1 => score <= list[k - 1].relevance_score
\* a returned list of eleven results: 1.0 first, 0.1 at positions 9 and 10
C14_Witness ==
    /\ search_call.pc = "returned"
    /\ Len(search_call.value) = 11
    /\ search_call.value[1].relevance_score = 10
    /\ search_call.value[10].relevance_score = 1
    /\ search_call.value[11].relevance_score = 1

\* C15: the context's query is the input question and its
\* unanswered_questions is empty, in every state of the run.
C15_QueryAndQuestionsUntouched ==
    /\ research_context.query = Question
    /\ research_context.unanswered_questions = <<>>
C15_Witness ==
    /\ Returned
    /\ calls.plan >= 2
    /\ research_context.search_history # <<>>
    /\ research_context.key_findings # <<>>
    /\ research_context.unanswered_questions = <<>>

\* the claim's test of a narrative line: everything judged on the trimmed line
ClaimedFindingLine(line) ==
    /\ Strip(line) # <<>>
    /\ ~StartsWith(Strip(line), <<Marker>>)
    /\ (Contains(Lower(Strip(line)), finding) \/ Contains(Lower(Strip(line)), discovered))
ClaimedFindingsOf(lines) ==
    LET kept == SelectSeq(lines, ClaimedFindingLine)
    IN [k \in 1..Len(kept) |-> Strip(kept[k])]

\* C16: the extraction after an Executor response extends key_findings, in
\* line order, by exactly the lines that after trimming are non-empty, do not
\* begin with the marker and contain "finding" or "discovered" in any case,
\* whatever the plan's tool calls did.
C16_FindingsAreTheMatchingLines ==
    [][pc = "extract" =>
          research_context'.key_findings =
              research_context.key_findings
              \o (IF search_result.content # <<>>
                  THEN ClaimedFindingsOf(SplitLines(search_result.content))
                  ELSE <<>>)]_vars

IsPrefix(a, b) == Len(a) <= Len(b) /\ SubSeq(b, 1, Len(a)) = a

\* C17: every step keeps search_history and key_findings as prefixes of their
\* new values, and changes search_iterations only by +1, when a planning
\* round is entered.
C17_AppendOnly ==
    [][/\ IsPrefix(research_context.search_history, research_context'.search_history)
       /\ IsPrefix(research_context.key_findings, research_context'.key_findings)
       /\ \/ research_context'.search_iterations = research_context.search_iterations
          \/ /\ research_context'.search_iterations
                    = research_context.search_iterations + 1
             /\ pc = "while"
             /\ pc' = "plan_searches"]_vars
\* an Executor failure in a later round, after both lists grew
C17_Witness ==
    /\ last_call = "exec_raise"
    /\ pc = "synthesize"
    /\ research_context.search_iterations >= 2
    /\ Len(research_context.search_history) >= 4
    /\ Len(research_context.key_findings) >= 2

\* C18: while a plan of the round's (at most 2) plans is left the loop over
\* the plans goes on to execute it, whatever the findings count; the stop
\* check is reached only with every such plan taken.
C18_StopCheckAfterAllPlans ==
    [][LET left == (IF Len(search_plans) < 2 THEN Len(search_plans) ELSE 2) - plan_idx
       IN /\ (pc = "for_plans" /\ left > 0) => pc' = "execute_search"
          /\ (pc # "check_stop" /\ pc' = "check_stop") => (pc = "for_plans" /\ left = 0)
          /\ pc = "check_stop" => research_context' = research_context]_vars
\* the second plan of round 3 is under execution with five findings there
C18_Witness ==
    /\ pc = "execute_search"
    /\ plan_idx = 2
    /\ research_context.search_iterations >= 3
    /\ Len(research_context.key_findings) >= 5

\* C20: a Planner call that returns no plan leaves the context as it is and
\* no Executor call follows in the round: the loop over the plans ends at
\* once and leads to the stop check, from where the loop goes on as after
\* any round.
C20_EmptyPlanRound ==
    [][/\ (pc = "plan_searches" /\ last_call' = "plan_ok" /\ search_plans' = <<>>)
             => /\ pc' = "for_plans"
                /\ research_context' = research_context
                /\ calls'.plan = research_context.search_iterations
       /\ (pc = "for_plans" /\ search_plans = <<>>)
             => /\ pc' = "check_stop"
                /\ research_context' = research_context
                /\ round_plans' = <<>>
       /\ (pc = "check_stop" /\ search_plans = <<>>
             /\ ~(Len(research_context.key_findings) >= 5
                    /\ research_context.search_iterations >= 3))
             => pc' = "while"]_vars
\* round 2 is being planned after a round 1 without plans
C20_Witness ==
    /\ pc = "plan_searches"
    /\ research_context.search_iterations = 2
    /\ last_call = "plan_ok"
    /\ search_plans = <<>>
    /\ round_plans = <<>>
    /\ research_context.search_history = <<>>

\* C19: every run ends, returning or with the Synthesizer's exception; a run
\* with max_iterations <= 0 ends without any call of the Planner or the
\* Executor (the counters of calls never decrease), on the empty context,
\* with one call of the Synthesizer, and what it returns carries iterations 0.
C19_NoRoundState ==
    max_iterations <= 0 =>
        /\ calls.plan = 0
        /\ calls.plan_raised = 0
        /\ calls.issued = 0
        /\ calls.tool = 0
        /\ narrated = 0
        /\ round_plans = <<>>
        /\ research_context = ResearchContext(Question)
        /\ calls.synth = 1
        /\ Returned => iterations = 0
C19_Terminates == <>(Finished /\ C19_NoRoundState)
C19_Witness ==
    /\ Returned
    /\ max_iterations = -1
    /\ iterations = 0
    /\ calls.synth = 1
    /\ calls.plan = 0
====
